---------------------------- MODULE Spec2Model ----------------------------
(***************************************************************************)
(* The MCP gateway of src/src/index.ts (the variant that keys sessions by  *)
(* the transport-assigned context.sessionId) and of src/unnamed/part_001   *)
(* (the variant that keeps one session under the fixed key                 *)
(* "currentSessionId").  The state is the sessions map, the transport      *)
(* table of the HTTP surface, the bag of capability handlers that are      *)
(* suspended on a downstream call, the downstream service's count of the   *)
(* calls it received, and the outcome of the step just taken.              *)
(*                                                                         *)
(* Identifiers are tuples <<origin, serial>>; texts are sequences of       *)
(* fragments, so that a template literal `a ${x} b` is <<"a ", x, " b">>   *)
(* and string concatenation is \o.                                         *)
(***************************************************************************)
EXTENDS Integers, Sequences, FiniteSets, Bags, TLC

\* ------------------------------------------------------------------ bounds

\* Number of capability invocations (prompt or tool calls) of one run.
MaxInv == 2

\* ------------------------------------------------------------- identifiers

\* context.sessionId / req.query.sessionId when it is not given.
UndefinedId == <<"undefined">>

\* req.query.sessionId given as the empty string.
EmptyId == << >>

\* The session ids the SSE transports assign (SSEServerTransport.sessionId).
SessionIds == {<<"sse", 1>>, <<"sse", 2>>}

\* The fixed key of the sessions map in part_001: sessions.currentSessionId.
CurrentKey == <<"currentSessionId">>

\* `mcp-${Date.now()}-${Math.random()...}`: the n-th identifier generated.
GeneratedId(n) == <<"mcp", n>>

\* A query parameter that names a property every object literal inherits
\* from Object.prototype (?sessionId=constructor).
InheritedKey == <<"constructor">>

\* The value an object literal has under an inherited key (a function of
\* Object.prototype): it is truthy and it is no transport and no session id.
InheritedValue == <<"Object.prototype", 0>>

\* JavaScript's !x on an identifier: undefined and "" are falsy.
Falsy(id) == id \in {UndefinedId, EmptyId}

\* ------------------------------------------------------------ JSON values

\* A field that is missing from a JSON body (or null).
Undefined == "<undefined>"

\* A field whose value is not a string (a number, an object).
NonString == "<non-string>"

\* JavaScript truthiness of an optional string field.
Truthy(v) == v \notin {Undefined, ""}

\* typeof v === 'string'
IsString(v) == v \notin {Undefined, NonString}

\* String(v), as `v + ""` and template literals compute it.
ToStr(v) == IF v = Undefined THEN "undefined"
            ELSE IF v = NonString THEN "[object Object]" ELSE v

\* The sample message texts a client sends to the chat prompt.
Messages == {"m1", "m2"}

\* The sample prompt a client sends to the request tool.
Prompts == {"p1"}

\* The literal initSession compares data.message with.
InitOkMessage == "Session initialized successfully"

\* What fetch(/api/init) and response.json() can produce: a rejected fetch,
\* a body that is not JSON, or a JSON body with a message field.
InitResponses ==
    { [failed |-> TRUE,  json |-> FALSE, message |-> Undefined],
      [failed |-> FALSE, json |-> FALSE, message |-> Undefined],
      [failed |-> FALSE, json |-> TRUE,  message |-> InitOkMessage],
      [failed |-> FALSE, json |-> TRUE,  message |-> "Session not initialized"] }

Body(response, toolUsed, error) ==
    [response |-> response, toolUsed |-> toolUsed, error |-> error]

\* The sample JSON bodies of /api/chat, {response?, toolUsed?, error?}: an
\* answer without and with a tool name, an empty tool name, an error alone
\* and beside an answer, an empty error, no field at all, and a response
\* that is not a string.
ChatBodies ==
    { Body("r1", Undefined, Undefined),
      Body("r1", "t1", Undefined),
      Body("r1", "", Undefined),
      Body(Undefined, Undefined, "e1"),
      Body("r1", "t1", "e1"),
      Body("r1", Undefined, ""),
      Body(Undefined, Undefined, Undefined),
      Body(NonString, "t1", Undefined) }

NoBody == [response |-> Undefined, toolUsed |-> Undefined, error |-> Undefined]

\* What fetch(/api/chat) can produce: a rejected fetch, or a status with a
\* body that is JSON or not.
ChatResponses ==
    { [failed |-> TRUE, status |-> 0, json |-> FALSE, body |-> NoBody] }
    \cup [failed : {FALSE}, status : {200, 404, 500}, json : {FALSE}, body : {NoBody}]
    \cup [failed : {FALSE}, status : {200, 404, 500}, json : {TRUE}, body : ChatBodies]

\* response.ok
Ok(resp) == resp.status >= 200 /\ resp.status <= 299


\* `${response.status}` in a message text.
StatusText(status) == IF status = 200 THEN "200"
                      ELSE IF status = 404 THEN "404"
                      ELSE IF status = 500 THEN "500" ELSE "0"

\* --------------------------------------------------- results of a handler

Msg(role, text) == [role |-> role, text |-> text]

\* A prompt handler's return value {messages: [...]}.
PromptReturn(messages) == [outcome |-> "returned", messages |-> messages]

\* The return value were the metadata field left out.
ToolReturnNoMetadata(text, isError, hasMetadata, toolUsed) ==
    [outcome |-> "returned", content |-> << [type |-> "text", text |-> text] >>,
     isError |-> isError, hasMetadata |-> FALSE, toolUsed |-> Undefined]

\* A tool handler's return value {content: [{type: "text", text}], isError?,
\* metadata?}.  isError is FALSE when the field is not set.
ToolReturn(text, isError, hasMetadata, toolUsed) ==
    [outcome |-> "returned", content |-> << [type |-> "text", text |-> text] >>,
     isError |-> isError, hasMetadata |-> hasMetadata, toolUsed |-> toolUsed]

\* An exception that leaves the handler.
Raised(text) == [outcome |-> "raised", error |-> text]

\* The suffix appended without looking at data.toolUsed.
ToolUsedSuffixAlways(toolUsed) == << "\n\n(Tool used: ", toolUsed, ")" >>

\* (data.toolUsed ? `\n\n(Tool used: ${data.toolUsed})` : "")
ToolUsedSuffix(toolUsed) ==
    IF Truthy(toolUsed) THEN << "\n\n(Tool used: ", toolUsed, ")" >> ELSE << >>

\* index.ts, chat prompt: the handler's result for the answer of /api/chat.
KeyedChatResult(message, resp) ==
    IF resp.failed
    THEN PromptReturn(<< Msg("assistant",
           << "Sorry, an unexpected error occurred while processing your chat message." >>) >>)
    ELSE IF ~Ok(resp)
    THEN PromptReturn(<< Msg("assistant",
           << "Sorry, there was an issue communicating with the insurance service (Status: ",
              StatusText(resp.status), ")." >>) >>)
    ELSE IF ~resp.json
    THEN PromptReturn(<< Msg("assistant",
           << "Sorry, an unexpected error occurred while processing your chat message." >>) >>)
    ELSE IF Truthy(resp.body.error)
    THEN PromptReturn(<< Msg("assistant",
           << "Sorry, the insurance service reported an error: ", resp.body.error >>) >>)
    ELSE LET responseText == IF resp.body.response = Undefined
                             THEN "(No response text received)"
                             ELSE ToStr(resp.body.response)
         IN  PromptReturn(<< Msg("user", << message >>),
                             Msg("assistant",
                                 << responseText >> \o ToolUsedSuffix(resp.body.toolUsed)) >>)

\* The tool's result were data.error not looked at.
KeyedToolResultNoErrorCheck(resp) ==
    IF resp.failed
    THEN ToolReturn(<< "Error communicating with Health Shield Insurance: ", "FetchError" >>,
                    TRUE, FALSE, Undefined)
    ELSE IF ~Ok(resp)
    THEN ToolReturn(<< "Error communicating with Health Shield Insurance: Status ",
                       StatusText(resp.status) >>, TRUE, FALSE, Undefined)
    ELSE IF ~resp.json
    THEN ToolReturn(<< "Error communicating with Health Shield Insurance: ", "SyntaxError" >>,
                    TRUE, FALSE, Undefined)
    ELSE IF ~IsString(resp.body.response)
    THEN ToolReturn(<< "Received an invalid response structure from the insurance service." >>,
                    TRUE, FALSE, Undefined)
    ELSE ToolReturn(<< resp.body.response >>, FALSE, TRUE, resp.body.toolUsed)

\* index.ts, InsuranceRequest tool: the handler's result for the answer of
\* /api/chat.
KeyedToolResult(resp) ==
    IF resp.failed
    THEN ToolReturn(<< "Error communicating with Health Shield Insurance: ", "FetchError" >>,
                    TRUE, FALSE, Undefined)
    ELSE IF ~Ok(resp)
    THEN ToolReturn(<< "Error communicating with Health Shield Insurance: Status ",
                       StatusText(resp.status) >>, TRUE, FALSE, Undefined)
    ELSE IF ~resp.json
    THEN ToolReturn(<< "Error communicating with Health Shield Insurance: ", "SyntaxError" >>,
                    TRUE, FALSE, Undefined)
    ELSE IF Truthy(resp.body.error)
    THEN ToolReturn(<< "Insurance client reported an error: ", resp.body.error >>,
                    TRUE, FALSE, Undefined)
    ELSE IF ~IsString(resp.body.response)
    THEN ToolReturn(<< "Received an invalid response structure from the insurance service." >>,
                    TRUE, FALSE, Undefined)
    ELSE ToolReturn(<< resp.body.response >>, FALSE, TRUE, resp.body.toolUsed)

\* part_001, chat prompt: no status check, no error-field check; a failed
\* fetch or an unparsable body is rethrown.
FixedChatResult(message, resp) ==
    IF resp.failed
    THEN Raised(<< "Failed to chat with Claude: ", "FetchError" >>)
    ELSE IF ~resp.json
    THEN Raised(<< "Failed to chat with Claude: ", "SyntaxError" >>)
    ELSE PromptReturn(<< Msg("user", << message >>),
                         Msg("assistant",
                             << ToStr(resp.body.response) >>
                                \o ToolUsedSuffix(resp.body.toolUsed)) >>)

\* part_001, BakeryRequest tool: no status check, no error-field check, no
\* check of data.response.
FixedToolResult(resp) ==
    IF resp.failed
    THEN ToolReturn(<< "Error communicating with Flour Bakery: ", "FetchError" >>,
                    TRUE, FALSE, Undefined)
    ELSE IF ~resp.json
    THEN ToolReturn(<< "Error communicating with Flour Bakery: ", "SyntaxError" >>,
                    TRUE, FALSE, Undefined)
    ELSE ToolReturn(<< resp.body.response >>, FALSE, TRUE, resp.body.toolUsed)

\* initSession: whether the answer of /api/init makes it store the session.
\* A rejected fetch and an unparsable body throw inside the try; a message
\* other than the literal throws in the else branch.  The status is not read.
InitSucceeds(r) == ~r.failed /\ r.json /\ r.message = InitOkMessage


\* ------------------------------------------------------------------ state

VARIABLES
    variant,      \* "keyed": src/src/index.ts; "fixed": src/unnamed/part_001
    serverMode,   \* args[0] || 'stdio': "stdio" or "http"
    sessions,     \* const sessions: Record<string, string>
    transports,   \* const transports: Record<string, SSEServerTransport>
    connState,    \* each SSE connection: "none" (id not assigned yet), "open", "closed"
    pending,      \* the bag of handlers suspended on a downstream call
    started,      \* how many capability invocations have begun
    generated,    \* how many session ids initSession has generated (part_001)
    initCalls,    \* per sessions key: POST /api/init calls issued
    initOks,      \* per sessions key: initSession calls that stored the session
    chatCalls,    \* per sessions key: POST /api/chat calls issued
    ev            \* what the step just taken returned or answered

vars == << variant, serverMode, sessions, transports, connState, pending, started, generated,
           initCalls, initOks, chatCalls, ev >>

Variants == {"keyed", "fixed"}

\* The keys the sessions map is read and written under.
Keys == SessionIds \cup {CurrentKey}

\* context.sessionId of an invocation: the id of the SSE transport the request
\* came in on, or undefined on the stdio transport, which has no session id.
CtxIds == SessionIds \cup {UndefinedId}

Modes == {"stdio", "http"}

\* req.query.sessionId of a POST /messages: whatever the client sends.
QueryIds == SessionIds \cup {UndefinedId, EmptyId, InheritedKey}

\* The SSEServerTransport created for the connection with this session id.
Transport(s) == [sessionId |-> s]

\* transports[key] when there is no such property: undefined.
NoTransport == [sessionId |-> UndefinedId]

\* transports[key] under an inherited key: not a transport, but truthy.
NotATransport == [sessionId |-> InheritedValue]

NoEvent == [op |-> "none"]

\* A handler suspended on the downstream call pc ("init" or "chat") that
\* carries callId as its sessionId.
Waiting(pc, kind, ctx, message, callId) ==
    [pc |-> pc, kind |-> kind, sessionId |-> ctx, message |-> message,
     callId |-> callId]

\* map[key] on an object literal: an own property, else what the key
\* inherits, else undefined.
Get(map, key, inherited, undefined) ==
    IF key \in DOMAIN map THEN map[key]
    ELSE IF key = InheritedKey THEN inherited ELSE undefined

\* !sessions[key] were it to find no session ever.
HasSessionNever(key) == FALSE

\* sessions[key] read as a condition: !sessions[key] is false.
HasSession(key) == ~Falsy(Get(sessions, key, InheritedValue, UndefinedId))

\* sessions[key] = value
Store(map, key, value) ==
    [k \in DOMAIN map \cup {key} |-> IF k = key THEN value ELSE map[k]]

\* The close handler were it to delete nothing.
DeleteNothing(map, key) == map

\* delete map[key]
Delete(map, key) == [k \in DOMAIN map \ {key} |-> map[k]]

\* The sessions key an invocation with this context works under.
KeyOf(ctx) == IF variant = "keyed" THEN ctx ELSE CurrentKey

Bump(f, key) == [f EXCEPT ![key] = @ + 1]

\* The record of a finished invocation in ev.
Result(kind, ctx, message, phase, resp, result) ==
    [op |-> "result", kind |-> kind, hasKey |-> ~Falsy(KeyOf(ctx)),
     message |-> message, phase |-> phase, resp |-> resp, result |-> result]

Init ==
    /\ variant \in Variants
    /\ serverMode \in Modes
    /\ sessions = << >>
    /\ transports = << >>
    /\ connState = [s \in SessionIds |-> "none"]
    /\ pending = EmptyBag
    /\ started = 0
    /\ generated = 0
    /\ initCalls = [k \in Keys |-> 0]
    /\ initOks = [k \in Keys |-> 0]
    /\ chatCalls = [k \in Keys |-> 0]
    /\ ev = NoEvent


\* The server were it to wait for its downstream call before it runs
\* anything else.
QuiescentAndIdle == ev = NoEvent /\ pending = EmptyBag

\* Node runs one callback to completion at a time, and what the callback
\* returned or answered is handed on (to the SDK, to the HTTP response) before
\* the event loop runs the next one: a step begins with nothing left in ev.
Quiescent == ev = NoEvent

\* The outcome of the step just taken has been handed to the client.
Deliver ==
    /\ ev # NoEvent
    /\ ev' = NoEvent
    /\ UNCHANGED << variant, serverMode, sessions, transports, connState, pending,
                    started, generated, initCalls, initOks, chatCalls >>

\* ------------------------------------------------- capability invocations

\* An invocation can begin with this context: over stdio the context has no
\* session id, over HTTP it has the id of a transport that was connected.
CanBegin(ctx) ==
    /\ Quiescent
    /\ started < MaxInv
    /\ IF serverMode = "stdio" THEN ctx = UndefinedId
       ELSE ctx \in SessionIds /\ connState[ctx] # "none"

\* The handler returns or raises: the invocation is over.
Finish(kind, ctx, message, phase, resp, result) ==
    ev' = Result(kind, ctx, message, phase, resp, result)

\* initSession up to its first await: fetch(`/api/init`, {sessionId}).
IssueInit(kind, ctx, message) ==
    LET id == IF variant = "keyed" THEN ctx ELSE GeneratedId(generated + 1)
    IN  /\ pending' = pending (+) SetToBag({Waiting("init", kind, ctx, message, id)})
        /\ generated' = IF variant = "keyed" THEN generated ELSE generated + 1
        /\ initCalls' = Bump(initCalls, KeyOf(ctx))
        /\ ev' = NoEvent
        /\ UNCHANGED << sessions, initOks, chatCalls >>

\* The sessionId were it the invocation's own context id in both sources.
ChatSessionIdOfContext(ctx, map) == ctx

\* The sessionId a handler puts in the body of /api/chat, given the sessions
\* map it reads: the context's id (index.ts), sessions.currentSessionId
\* (part_001).
ChatSessionId(ctx, map) == IF variant = "keyed" THEN ctx ELSE map[CurrentKey]

\* The handler up to the await of fetch(`/api/chat`, {sessionId, message}).
\* rest is the bag of the other suspended handlers.
IssueChat(rest, kind, ctx, message, map) ==
    /\ pending' = rest (+) SetToBag({Waiting("chat", kind, ctx, message,
                                              ChatSessionId(ctx, map))})
    /\ chatCalls' = Bump(chatCalls, KeyOf(ctx))
    /\ ev' = NoEvent

\* First use were it guarded: an invocation that finds an /api/init call for
\* its key outstanding is turned away instead of issuing another one.
EnsureSessionGuarded(kind, ctx, message) ==
    IF HasSession(KeyOf(ctx))
    THEN /\ IssueChat(pending, kind, ctx, message, sessions)
         /\ UNCHANGED << sessions, generated, initCalls, initOks >>
    ELSE IF \E me \in BagToSet(pending) :
                me.pc = "init" /\ KeyOf(me.sessionId) = KeyOf(ctx)
    THEN /\ Finish(kind, ctx, message, "start", NoEvent,
                   Raised(<< "Session is being initialized." >>))
         /\ UNCHANGED << sessions, pending, generated, initCalls, initOks, chatCalls >>
    ELSE IssueInit(kind, ctx, message)

\* if (!sessions[key]) await initSession(...), then the chat call.
EnsureSessionThenChat(kind, ctx, message) ==
    IF HasSession(KeyOf(ctx))
    THEN /\ IssueChat(pending, kind, ctx, message, sessions)
         /\ UNCHANGED << sessions, generated, initCalls, initOks >>
    ELSE IssueInit(kind, ctx, message)

\* The chat prompt handler's answer to a context without a session id
\* (index.ts only: part_001 does not read the context).
ChatMissingSessionResult ==
    PromptReturn(<< Msg("assistant", << "Internal error: Missing session ID." >>) >>)

\* The tool handler's answer to a context without a session id.
ToolMissingSessionResult == Raised(<< "Session ID is missing from the context." >>)

\* server.prompt("chat", ...) from its entry to its first await or return.
ChatPrompt(ctx, message) ==
    /\ CanBegin(ctx)
    /\ started' = started + 1
    /\ IF variant = "keyed" /\ Falsy(ctx)
       THEN /\ Finish("chat", ctx, message, "start", NoEvent, ChatMissingSessionResult)
            /\ UNCHANGED << sessions, pending, generated, initCalls, initOks, chatCalls >>
       ELSE EnsureSessionThenChat("chat", ctx, message)
    /\ UNCHANGED << variant, serverMode, transports, connState >>

\* server.tool("InsuranceRequest" / "BakeryRequest", ...) from its entry to
\* its first await or throw.
RequestTool(ctx, prompt) ==
    /\ CanBegin(ctx)
    /\ started' = started + 1
    /\ IF variant = "keyed" /\ Falsy(ctx)
       THEN /\ Finish("tool", ctx, prompt, "start", NoEvent, ToolMissingSessionResult)
            /\ UNCHANGED << sessions, pending, generated, initCalls, initOks, chatCalls >>
       ELSE EnsureSessionThenChat("tool", ctx, prompt)
    /\ UNCHANGED << variant, serverMode, transports, connState >>

\* What a handler does with the exception initSession throws: the chat prompt
\* of index.ts catches it and returns a message; the tool of index.ts and both
\* handlers of part_001 call initSession outside their try block.
InitFailureResult(kind) ==
    IF variant = "keyed" /\ kind = "chat"
    THEN PromptReturn(<< Msg("assistant",
                             << "Sorry, I couldn't prepare the chat session." >>) >>)
    ELSE Raised(<< "Failed to initialize session: ", "Error" >>)

\* initSession were it to store the session before it reads the answer.
InitSessionStoreAlways(map, key, id, r) == Store(map, key, id)

\* initSession were it to store an id of its own making under the key.
InitSessionStoreGenerated(map, key, id, r) ==
    IF InitSucceeds(r) THEN Store(map, key, GeneratedId(1)) ELSE map

\* initSession were it to drop the key's entry when the call fails.
InitSessionStoreEvicting(map, key, id, r) ==
    IF InitSucceeds(r) THEN Store(map, key, id) ELSE Delete(map, key)

\* initSession's effect on the sessions map once /api/init has answered.
InitSessionStore(map, key, id, r) ==
    IF InitSucceeds(r) THEN Store(map, key, id) ELSE map

\* initSession were it to try /api/init again when the call fails.
InitSessionRetries(me, r) ==
    LET key  == KeyOf(me.sessionId)
        rest == pending (-) SetToBag({me})
    IN  /\ Quiescent
        /\ me.pc = "init"
        /\ sessions' = InitSessionStore(sessions, key, me.callId, r)
        /\ IF InitSucceeds(r)
           THEN /\ initOks' = Bump(initOks, key)
                /\ IssueChat(rest, me.kind, me.sessionId, me.message, sessions')
                /\ initCalls' = initCalls
           ELSE /\ initCalls' = Bump(initCalls, key)
                /\ ev' = NoEvent
                /\ UNCHANGED << pending, initOks, chatCalls >>
        /\ UNCHANGED << variant, serverMode, transports, connState, started,
                        generated >>

\* The handler were it to go on to /api/chat whatever initSession did.
InitSessionReturnsThenChats(me, r) ==
    LET key  == KeyOf(me.sessionId)
        rest == pending (-) SetToBag({me})
    IN  /\ Quiescent
        /\ me.pc = "init"
        /\ sessions' = InitSessionStore(sessions, key, me.callId, r)
        /\ initOks' = IF InitSucceeds(r) THEN Bump(initOks, key) ELSE initOks
        /\ pending' = rest (+) SetToBag({Waiting("chat", me.kind, me.sessionId,
                                                  me.message, me.callId)})
        /\ chatCalls' = Bump(chatCalls, key)
        /\ ev' = NoEvent
        /\ UNCHANGED << variant, serverMode, transports, connState, started,
                        generated, initCalls >>

\* /api/init answers the suspended handler me: initSession resumes, stores
\* the session or throws, and the handler goes on to the chat call or ends.
InitSessionReturns(me, r) ==
    LET key  == KeyOf(me.sessionId)
        rest == pending (-) SetToBag({me})
    IN  /\ Quiescent
        /\ me.pc = "init"
        /\ sessions' = InitSessionStore(sessions, key, me.callId, r)
        /\ IF InitSucceeds(r)
           THEN /\ initOks' = Bump(initOks, key)
                /\ IssueChat(rest, me.kind, me.sessionId, me.message, sessions')
           ELSE /\ Finish(me.kind, me.sessionId, me.message, "init", r,
                          InitFailureResult(me.kind))
                /\ pending' = rest
                /\ UNCHANGED << initOks, chatCalls >>
        /\ UNCHANGED << variant, serverMode, transports, connState, started,
                        generated, initCalls >>

\* The handler's result for the answer of /api/chat.
ChatResult(kind, message, resp) ==
    IF variant = "keyed"
    THEN IF kind = "chat" THEN KeyedChatResult(message, resp) ELSE KeyedToolResult(resp)
    ELSE IF kind = "chat" THEN FixedChatResult(message, resp) ELSE FixedToolResult(resp)

\* The tool were it never to come back from its /api/chat call.
ChatReturnsToPromptOnly(me, resp) ==
    /\ Quiescent
    /\ me.pc = "chat"
    /\ me.kind = "chat"
    /\ Finish(me.kind, me.sessionId, me.message, "chat", resp,
              ChatResult(me.kind, me.message, resp))
    /\ pending' = pending (-) SetToBag({me})
    /\ UNCHANGED << variant, serverMode, sessions, transports, connState, started,
                    generated, initCalls, initOks, chatCalls >>

\* /api/chat answers the suspended handler me: it resumes and returns or
\* raises.
ChatReturns(me, resp) ==
    /\ Quiescent
    /\ me.pc = "chat"
    /\ Finish(me.kind, me.sessionId, me.message, "chat", resp,
              ChatResult(me.kind, me.message, resp))
    /\ pending' = pending (-) SetToBag({me})
    /\ UNCHANGED << variant, serverMode, sessions, transports, connState, started,
                    generated, initCalls, initOks, chatCalls >>


\* ----------------------------------------------------------- HTTP surface

\* What transport.handlePostMessage (the SDK) can do with a request: answer
\* it, throw before any header was sent, or throw after it sent a status.
SdkOutcomes ==
    { [threw |-> FALSE, sent |-> 202],
      [threw |-> TRUE,  sent |-> 0],
      [threw |-> TRUE,  sent |-> 400] }

\* The answer to an HTTP request, and the transport the request was handed to.
Answer(op, query, status, error, id, to) ==
    [op |-> op, query |-> query, status |-> status, error |-> error,
     id |-> id, dispatchedTo |-> to]

\* app.get('/sse'): a transport with a fresh session id (the next unused one)
\* is created and registered.  When server.connect throws, res.end() ends the connection and
\* its close event follows as for any other connection.
SseConnect(s) ==
    /\ Quiescent
    /\ serverMode = "http"
    /\ connState[s] = "none"
    /\ \A t \in SessionIds : t[2] < s[2] => connState[t] # "none"
    /\ transports' = Store(transports, s, Transport(s))
    /\ connState' = [connState EXCEPT ![s] = "open"]
    /\ ev' = [op |-> "GET /sse", sessionId |-> s]
    /\ UNCHANGED << variant, serverMode, sessions, pending, started, generated, initCalls, initOks, chatCalls >>

\* The close callback were it to cancel the connection's outstanding calls.
SseCloseCancels(s) ==
    /\ Quiescent
    /\ connState[s] = "open"
    /\ transports' = Delete(transports, s)
    /\ connState' = [connState EXCEPT ![s] = "closed"]
    /\ pending' = [me \in {x \in BagToSet(pending) : x.sessionId # s} |-> pending[me]]
    /\ ev' = NoEvent
    /\ UNCHANGED << variant, serverMode, sessions, started, generated, initCalls, initOks, chatCalls >>

\* req.on("close"): delete transports[sessionId].
SseClose(s) ==
    /\ Quiescent
    /\ connState[s] = "open"
    /\ transports' = Delete(transports, s)
    /\ connState' = [connState EXCEPT ![s] = "closed"]
    /\ ev' = NoEvent
    /\ UNCHANGED << variant, serverMode, sessions, pending, started, generated, initCalls, initOks, chatCalls >>

\* The lookup were it to take whichever transport is registered.
LookupAny(query) ==
    IF DOMAIN transports = {} THEN NoTransport
    ELSE transports[CHOOSE k \in DOMAIN transports : TRUE]

\* transports[sessionId]
Lookup(query) == Get(transports, query, NotATransport, NoTransport)

\* The route were it to look the transport up before it checks the parameter.
PostAnswerLookupFirst(query, sdk) ==
    IF Lookup(query) = NoTransport
    THEN Answer("POST /messages", query, 404, "No transport found for sessionId: ",
                query, NoTransport)
    ELSE IF Falsy(query)
    THEN Answer("POST /messages", query, 400, "Missing sessionId parameter",
                UndefinedId, NoTransport)
    ELSE IF Lookup(query) = NotATransport
    THEN Answer("POST /messages", query, 500, "Error handling message: ",
                UndefinedId, NoTransport)
    ELSE IF sdk.threw /\ sdk.sent = 0
    THEN Answer("POST /messages", query, 500, "Error handling message: ",
                UndefinedId, Lookup(query))
    ELSE Answer("POST /messages", query, sdk.sent, "", UndefinedId, Lookup(query))

\* app.post('/messages'): its answer for this query parameter, when the SDK
\* does sdk with a dispatched request.
PostAnswer(query, sdk) ==
    IF Falsy(query)
    THEN Answer("POST /messages", query, 400, "Missing sessionId parameter",
                UndefinedId, NoTransport)
    ELSE IF Lookup(query) = NoTransport
    THEN Answer("POST /messages", query, 404, "No transport found for sessionId: ",
                query, NoTransport)
    ELSE IF Lookup(query) = NotATransport
    THEN \* transport.handlePostMessage is not a function: a TypeError in the try
         Answer("POST /messages", query, 500, "Error handling message: ",
                UndefinedId, NoTransport)
    ELSE IF sdk.threw /\ sdk.sent = 0
    THEN Answer("POST /messages", query, 500, "Error handling message: ",
                UndefinedId, Lookup(query))
    ELSE Answer("POST /messages", query, sdk.sent, "", UndefinedId, Lookup(query))

PostMessages(query, sdk) ==
    /\ Quiescent
    /\ serverMode = "http"
    /\ ev' = PostAnswer(query, sdk)
    /\ UNCHANGED << variant, serverMode, sessions, transports, connState, pending, started, generated,
                    initCalls, initOks, chatCalls >>

\* The answer were it to depend on the downstream calls that are outstanding.
HealthAnswerWhenIdle ==
    [op |-> "GET /health", status |-> IF pending = EmptyBag THEN 200 ELSE 503,
     body |-> "OK"]

\* app.get('/health'): res.status(200).send('OK').
HealthAnswer == [op |-> "GET /health", status |-> 200, body |-> "OK"]

Health ==
    /\ Quiescent
    /\ serverMode = "http"
    /\ ev' = HealthAnswer
    /\ UNCHANGED << variant, serverMode, sessions, transports, connState, pending, started, generated,
                    initCalls, initOks, chatCalls >>

\* ---------------------------------------------------------- specification

\* The downstream service answers one of the outstanding /api/init calls.
InitAnswered ==
    \E me \in BagToSet(pending), r \in InitResponses : InitSessionReturns(me, r)

\* The downstream service answers one of the outstanding /api/chat calls.
ChatAnswered ==
    \E me \in BagToSet(pending), r \in ChatResponses : ChatReturns(me, r)

Next ==
    \/ \E ctx \in CtxIds, m \in Messages : ChatPrompt(ctx, m)
    \/ \E ctx \in CtxIds, m \in Prompts : RequestTool(ctx, m)
    \/ InitAnswered
    \/ ChatAnswered
    \/ \E s \in SessionIds : SseConnect(s)
    \/ \E s \in SessionIds : SseClose(s)
    \/ \E q \in QueryIds, sdk \in SdkOutcomes : PostMessages(q, sdk)
    \/ Health
    \/ Deliver

Spec == Init /\ [][Next]_vars

\* The program with a downstream service that answers every call in the end,
\* however often other callbacks run in between, and with an event loop that
\* hands on every outcome.
LiveSpec ==
    /\ Spec
    /\ SF_vars(InitAnswered)
    /\ SF_vars(ChatAnswered)
    /\ WF_vars(Deliver)


\* ---------------------------------------------------------------- claims

\* C1: the first /api/chat call for a session key is issued only after an
\* /api/init call for that key has been issued and has succeeded, and once an
\* /api/init call for a key has succeeded no further one is issued for it.
\* (How many /api/init calls precede the first /api/chat call is not fixed.)
C1_InitSucceedsBeforeChat ==
    [][\A k \in Keys :
          /\ chatCalls'[k] > chatCalls[k]
                => initOks'[k] >= 1 /\ initCalls'[k] >= initOks'[k]
          /\ initOks[k] >= 1 => initCalls'[k] = initCalls[k]]_vars

\* C1 as claimed (index.ts): exactly one /api/init call has been issued for a
\* key when the first /api/chat call for that key is issued, and none is issued
\* once one has succeeded.
C1_ExactlyOneInitBeforeFirstChat ==
    [][variant = "keyed" =>
          \A k \in Keys :
              /\ (chatCalls[k] = 0 /\ chatCalls'[k] > 0) => initCalls'[k] = 1
              /\ initOks[k] >= 1 => initCalls'[k] = initCalls[k]]_vars

\* C1 happens: for a transport's session id one /api/init call was issued and
\* succeeded, and two /api/chat calls followed it.
C1_Witness ==
    \E k \in SessionIds :
        variant = "keyed" /\ initCalls[k] = 1 /\ initOks[k] = 1 /\ chatCalls[k] = 2

\* The step is initSession failing for the suspended handler me.
InitFails(me, r) == InitSessionReturns(me, r) /\ ~InitSucceeds(r)

\* The step begins an invocation with this context (whose key is known).
Begins(ctx) ==
    /\ ~Falsy(KeyOf(ctx))
    /\ \E m \in Messages \cup Prompts : ChatPrompt(ctx, m) \/ RequestTool(ctx, m)

PendingInits(k) ==
    LET waiting == {me \in BagToSet(pending) : me.pc = "init" /\ KeyOf(me.sessionId) = k}
        Sum[S \in SUBSET waiting] ==
            IF S = {} THEN 0
            ELSE LET me == CHOOSE x \in S : TRUE
                 IN  CopiesIn(me, pending) + Sum[S \ {me}]
    IN  Sum[waiting]

IsResult == ev.op = "result"

\* ev holds the result of an invocation that got the answer of /api/chat.
ChatAnswer == IsResult /\ ev.phase = "chat"

\* The failures of an invocation: initSession threw, fetch of /api/chat was
\* rejected, the status is not 2xx, the body is not JSON, the body has an
\* error field.
InitFailure == IsResult /\ ev.phase = "init"

TransportFailure == ChatAnswer /\ ev.resp.failed

BadStatus == ChatAnswer /\ ~ev.resp.failed /\ ev.resp.status >= 400

ParseFailure == ChatAnswer /\ ~ev.resp.failed /\ ~ev.resp.json

ErrorField == ChatAnswer /\ ev.resp.json /\ ev.resp.body.error # Undefined

\* The body has no response field, or one that is not a string.
MalformedPayload ==
    ChatAnswer /\ ev.resp.json /\ ~IsString(ev.resp.body.response)

\* The result in ev is a returned content block with the error flag set.
FlaggedContent ==
    /\ ev.result.outcome = "returned"
    /\ Len(ev.result.content) = 1
    /\ ev.result.isError

\* C3: every failure of the request tool, once the session key is known, is a
\* returned content block with the error flag set; nothing is thrown.
C3_ToolFailuresAreFlagged ==
    (/\ IsResult /\ ev.kind = "tool" /\ ev.hasKey
     /\ \/ InitFailure \/ TransportFailure \/ BadStatus \/ ParseFailure
        \/ (ErrorField /\ Truthy(ev.resp.body.error)) \/ MalformedPayload)
        => FlaggedContent

\* C4: when /api/chat answers with a status >= 400, the request tool's result
\* has the error flag set and no toolUsed metadata, whatever the body.
C4_BadStatusIsFlagged ==
    (BadStatus /\ ev.kind = "tool")
        => FlaggedContent /\ ~ev.result.hasMetadata

\* The text of a result contains this fragment.
Surfaces(text, fragment) == \E n \in 1..Len(text) : text[n] = fragment

\* The one text of the result in ev: the tool's content block, or the prompt's
\* single message.
ResultText ==
    IF ev.kind = "tool" THEN ev.result.content[1].text ELSE ev.result.messages[1].text

\* The result in ev is one assistant message.
OneAssistantMessage ==
    /\ ev.result.outcome = "returned"
    /\ Len(ev.result.messages) = 1
    /\ ev.result.messages[1].role = "assistant"

\* The result in ev reports a failure in the handler's way: the tool by a
\* flagged content block, the prompt by one assistant message.
ReportsFailure == IF ev.kind = "tool" THEN FlaggedContent ELSE OneAssistantMessage

C6_ChatFailuresAreOneMessage ==
    (/\ IsResult /\ ev.kind = "chat" /\ ev.hasKey
     /\ \/ InitFailure \/ TransportFailure \/ BadStatus \/ ParseFailure
        \/ (ErrorField /\ Truthy(ev.resp.body.error)))
        => OneAssistantMessage

\* A successful exchange: a 2xx JSON body without error text and with a
\* response that is a string.
Success ==
    /\ ChatAnswer /\ ~ev.resp.failed /\ Ok(ev.resp) /\ ev.resp.json
    /\ ~Truthy(ev.resp.body.error) /\ IsString(ev.resp.body.response)

\* The result in ev is the two-turn exchange user: message, assistant: text.
TwoTurns(text) ==
    /\ ev.result.outcome = "returned"
    /\ ev.result.messages = << [role |-> "user", text |-> << ev.message >>],
                               [role |-> "assistant", text |-> text] >>

\* C7: on a successful exchange the chat prompt returns exactly two messages,
\* the user's message as it came in and then the assistant's turn: the response
\* text alone when there is no toolUsed (the field is missing, or names
\* nothing), and the response text followed by "\n\n(Tool used: <toolUsed>)"
\* exactly when toolUsed names a tool.
C7_TwoTurnExchange ==
    (Success /\ ev.kind = "chat") =>
        IF ev.resp.body.toolUsed \in {Undefined, ""}
        THEN TwoTurns(<< ev.resp.body.response >>)
        ELSE TwoTurns(<< ev.resp.body.response,
                         "\n\n(Tool used: ", ev.resp.body.toolUsed, ")" >>)

\* C7 happens: a successful exchange that names the tool used, for the second
\* sample message.
C7_Witness ==
    /\ Success /\ ev.kind = "chat" /\ ev.message = "m2"
    /\ ev.resp.body.toolUsed = "t1"
    /\ Len(ev.result.messages) = 2

\* The answer in ev is that of a POST /messages.
IsPost == ev.op = "POST /messages"

\* No transport is registered for this id: it is no id of an open connection.
Unregistered(id) == id \notin SessionIds \/ connState[id] # "open"

\* C8: a POST /messages with a session id for which no transport is registered
\* is answered 404 with a body naming the id, and is handed to no transport.
C8_UnknownSessionIs404 ==
    (IsPost /\ ~Falsy(ev.query) /\ Unregistered(ev.query))
        => /\ ev.status = 404
           /\ ev.error = "No transport found for sessionId: "
           /\ ev.id = ev.query
           /\ ev.dispatchedTo = NoTransport

\* C9: a POST /messages without a session id, or with an empty one, is answered
\* 400 "Missing sessionId parameter" and handed to no transport, although the
\* id is not a registered one either: the check comes before the lookup.
C9_MissingKeyIs400 ==
    (IsPost /\ Falsy(ev.query))
        => /\ Unregistered(ev.query)
           /\ ev.status = 400
           /\ ev.error = "Missing sessionId parameter"
           /\ ev.dispatchedTo = NoTransport

\* C9 happens: an empty session id was answered while a connection was open.
C9_Witness ==
    /\ IsPost /\ ev.query = EmptyId /\ ev.status = 400
    /\ \E s \in SessionIds : connState[s] = "open"

\* The step closes the connection with session id s.
Closes(s) == connState[s] = "open" /\ connState'[s] = "closed"

\* C10: the close of a connection removes its transport entry and leaves every
\* other entry as it was, and from then on a POST /messages addressed to the
\* closed connection's id is answered 404 and handed to no transport.
C10_CloseRemovesOnlyItsEntry ==
    /\ [][\A s \in SessionIds : Closes(s) =>
            /\ s \in DOMAIN transports
            /\ DOMAIN transports' = DOMAIN transports \ {s}
            /\ \A t \in DOMAIN transports' : transports'[t] = transports[t]]_vars
    /\ [](\A s \in SessionIds :
            (IsPost /\ ev.query = s /\ connState[s] = "closed")
                => ev.status = 404 /\ ev.dispatchedTo = NoTransport)

\* C10 happens: one connection is closed, another one is still open and
\* registered, and a POST to the closed one was answered.
C10_Witness ==
    \E s, t \in SessionIds :
        /\ connState[s] = "closed" /\ connState[t] = "open"
        /\ t \in DOMAIN transports
        /\ IsPost /\ ev.query = s /\ ev.status = 404

\* C11: a key has at most one downstream session (at most one /api/init call
\* for it succeeds), and the value of a session entry, once stored, is never
\* changed by a later step.
C11_OneSessionNeverMutated ==
    /\ [](\A k \in Keys : initOks[k] <= 1)
    /\ [][\A k \in DOMAIN sessions :
            k \in DOMAIN sessions' /\ sessions'[k] = sessions[k]]_vars

\* C12 (index.ts): a JSON body of /api/chat whose response field is missing
\* or not a string is no successful exchange: the tool returns a flagged
\* content block, and the chat prompt does not return the two-turn exchange.
C12_MalformedResponseIsNoSuccess ==
    (variant = "keyed" /\ MalformedPayload) =>
        IF ev.kind = "tool" THEN FlaggedContent
        ELSE ev.result.outcome = "returned" => Len(ev.result.messages) # 2

\* C13: on a successful exchange the request tool returns one text content
\* block that is the response text as it came, a metadata field with the
\* toolUsed value of the body (which may be missing), and no error flag.
C13_ToolSuccessShape ==
    (Success /\ ev.kind = "tool") =>
        /\ ev.result.outcome = "returned"
        /\ ev.result.content = << [type |-> "text", text |-> << ev.resp.body.response >>] >>
        /\ ev.result.hasMetadata
        /\ ev.result.toolUsed = ev.resp.body.toolUsed
        /\ ~ev.result.isError

\* C13 happens: the tool got a successful answer that names a tool.
C13_Witness ==
    /\ Success /\ ev.kind = "tool" /\ ev.resp.body.error = Undefined
    /\ ev.resp.body.toolUsed = "t1" /\ ev.result.toolUsed = "t1"
    /\ ev.result.content[1].text = << "r1" >>

\* C14 (index.ts): a capability handler raises exactly when the context has
\* no session id: with the id it returns, without it both the chat prompt and
\* the tool raise.
C14_RaisesOnlyWithoutKey ==
    (variant = "keyed" /\ IsResult) =>
        (ev.result.outcome = "raised" <=> ~ev.hasKey)

IsHealth == ev.op = "GET /health"

\* C15: GET /health is answered in every state of the HTTP server, whatever
\* the sessions map, the transport table and the outstanding downstream calls
\* are; the answer is 200 with the body "OK"; the request issues no
\* downstream call and changes no state.
C15_HealthIsAlwaysOk ==
    /\ []((serverMode = "http" /\ Quiescent) => ENABLED Health)
    /\ [](IsHealth => ev.status = 200 /\ ev.body = "OK")
    /\ [][IsHealth' =>
            UNCHANGED << sessions, transports, connState, pending, started,
                         generated, initCalls, initOks, chatCalls >>]_vars

\* C15 happens: /health is answered while a downstream call is outstanding,
\* a session is stored and a connection has been closed.
C15_Witness ==
    /\ IsHealth /\ ev.status = 200
    /\ pending # EmptyBag
    /\ DOMAIN sessions # {}
    /\ \E s \in SessionIds : connState[s] = "closed"

\* C16: first use is not guarded: an invocation that begins for a key without
\* a session issues its own /api/init call even while /api/init calls for that
\* key are outstanding, so that two calls for one key are outstanding together.
C16_FirstUseIsUnguarded ==
    [][\A ctx \in CtxIds :
          (/\ Begins(ctx)
           /\ ~HasSession(KeyOf(ctx))
           /\ PendingInits(KeyOf(ctx)) >= 1)
              => /\ initCalls'[KeyOf(ctx)] = initCalls[KeyOf(ctx)] + 1
                 /\ PendingInits(KeyOf(ctx))' = PendingInits(KeyOf(ctx)) + 1]_vars

\* C16 happens: two /api/init calls for one key were issued before either
\* was answered, and both have succeeded: two downstream sessions for the key.
C16_Witness ==
    \E k \in Keys : initCalls[k] = 2 /\ initOks[k] = 2 /\ chatCalls[k] = 2

\* The suspended handlers that the step has just put on an /api/chat call.
NewChatCalls ==
    {me \in BagToSet(pending') :
        me.pc = "chat" /\ CopiesIn(me, pending') > CopiesIn(me, pending)}

\* C17 (part_001): every /api/chat call is issued under the value that the
\* shared field sessions.currentSessionId has at that moment, whichever
\* connection the invocation came from: never under the invocation's own
\* context id.
C17_FixedKeyIsShared ==
    [][variant = "fixed" =>
          \A me \in NewChatCalls :
              /\ me.callId = sessions'[CurrentKey]
              /\ me.callId # me.sessionId]_vars

\* C17 happens: invocations that came over two different connections are
\* both forwarded to /api/chat under one session id.
C17_Witness ==
    /\ variant = "fixed"
    /\ \E a, b \in BagToSet(pending) :
          /\ a.pc = "chat" /\ b.pc = "chat"
          /\ a.sessionId \in SessionIds /\ b.sessionId \in SessionIds
          /\ a.sessionId # b.sessionId
          /\ a.callId = b.callId

\* C18 (index.ts): every outstanding /api/init and /api/chat call carries the
\* context session id of the invocation that issued it, and every session
\* entry maps its key to itself: no call goes out under the id of another
\* connection.
C18_KeyedCallsCarryOwnId ==
    variant = "keyed" =>
        /\ \A me \in BagToSet(pending) :
              me.callId = me.sessionId /\ me.sessionId \in SessionIds
        /\ \A k \in DOMAIN sessions : sessions[k] = k

\* C18 happens: calls of two invocations that came over two connections are
\* outstanding, one at /api/chat after its session was stored.
C18_Witness ==
    /\ variant = "keyed"
    /\ \E a, b \in BagToSet(pending) :
          /\ a.sessionId # b.sessionId
          /\ a.pc = "chat" /\ a.callId = a.sessionId
          /\ a.sessionId \in DOMAIN sessions
          /\ b.callId = b.sessionId

\* C19: the transport table has exactly one entry for every streaming
\* connection that was registered and is not closed, under the session id of
\* that connection's transport; and a POST /messages for key k is handed to
\* the transport registered under k, and to none when there is no such entry.
C19_TransportTable ==
    /\ DOMAIN transports = {s \in SessionIds : connState[s] = "open"}
    /\ \A s \in DOMAIN transports : transports[s] = Transport(s)
    /\ IsPost =>
          IF ev.query \in DOMAIN transports
          THEN ev.dispatchedTo = Transport(ev.query)
          ELSE ev.dispatchedTo = NoTransport

\* C19 happens: with two connections open, a message for the second one was
\* handed to its transport.
C19_Witness ==
    /\ \A s \in SessionIds : connState[s] = "open"
    /\ IsPost /\ ev.query = << "sse", 2 >>
    /\ ev.dispatchedTo = Transport(<< "sse", 2 >>) /\ ev.status = 202

\* C20: no step removes a session entry: the keys of the sessions map only
\* grow, and the close of a connection, an answer of /api/chat (failed or
\* not) and a failed initSession leave the map as it was.
C20_SessionsNeverRemoved ==
    [][/\ DOMAIN sessions \subseteq DOMAIN sessions'
       /\ (\E s \in SessionIds : Closes(s)) => sessions' = sessions
       /\ ChatAnswer' => sessions' = sessions
       /\ InitFailure' => sessions' = sessions]_vars

\* C20 happens: the session of a connection is still stored after the
\* connection was closed and after a chat call for it has failed.
C20_Witness ==
    /\ variant = "keyed"
    /\ \E s \in SessionIds : connState[s] = "closed" /\ s \in DOMAIN sessions
    /\ ChatAnswer /\ ev.resp.failed

\* The sum of a per-key counter.
Total(f) ==
    LET Sum[S \in SUBSET Keys] ==
            IF S = {} THEN 0
            ELSE LET k == CHOOSE x \in S : TRUE IN f[k] + Sum[S \ {k}]
    IN  Sum[Keys]

\* How many handlers are suspended on a downstream call.
Outstanding == BagCardinality(pending)

\* C21: every downstream call is a single attempt.  An /api/init call is
\* issued only by the step that begins an invocation; an /api/chat call is
\* issued only by that step or by the step in which the invocation's own
\* /api/init call succeeds; a step issues one call at most; and the step in
\* which a call fails, or in which /api/chat answers, issues none.  So no
\* more /api/init calls and no more /api/chat calls than invocations exist.
C21_SingleAttempt ==
    /\ [](Total(initCalls) <= started /\ Total(chatCalls) <= started)
    /\ [][/\ Total(initCalls') + Total(chatCalls')
              <= Total(initCalls) + Total(chatCalls) + 1
          /\ Total(initCalls') > Total(initCalls) => started' = started + 1
          /\ Total(chatCalls') > Total(chatCalls) =>
                \/ started' = started + 1
                \/ Total(initOks') = Total(initOks) + 1 /\ Outstanding' = Outstanding
          /\ (InitFailure' \/ ChatAnswer') =>
                /\ initCalls' = initCalls /\ chatCalls' = chatCalls
                /\ Outstanding' = Outstanding - 1]_vars

\* C21 happens: an invocation whose /api/init call failed and one whose
\* /api/chat call failed are both over, and each call was issued once.
C21_Witness ==
    /\ started = 2 /\ Outstanding = 0
    /\ Total(initCalls) = 2 /\ Total(initOks) = 1 /\ Total(chatCalls) = 1
    /\ ChatAnswer /\ ev.resp.failed

\* The step resumes the suspended handler old with a successful answer of
\* /api/init and puts that same invocation on the /api/chat call me.
OwnInitSucceeded(old, me) ==
    /\ old.pc = "init"
    /\ old.kind = me.kind /\ old.sessionId = me.sessionId /\ old.message = me.message
    /\ \E r \in InitResponses : InitSucceeds(r) /\ InitSessionReturns(old, r)

\* C22: an /api/chat call is only issued by an invocation that found a
\* session stored for its key when it began, or whose own /api/init call has
\* just succeeded; the step in which initSession fails issues no /api/chat
\* call and ends the invocation.
C22_NoChatAfterFailedInit ==
    [][/\ \A me \in NewChatCalls :
             \/ started' = started + 1 /\ HasSession(KeyOf(me.sessionId))
             \/ \E old \in BagToSet(pending) : OwnInitSucceeded(old, me)
       /\ InitFailure' =>
             /\ NewChatCalls = {}
             /\ chatCalls' = chatCalls
             /\ Outstanding' = Outstanding - 1]_vars

\* C22 happens: initSession has failed for an invocation whose key has a
\* session by then (another /api/init call for it succeeded), and still the
\* only /api/chat call is the one of the other invocation.
C22_Witness ==
    /\ InitFailure
    /\ \E k \in Keys :
          HasSession(k) /\ initCalls[k] = 2 /\ initOks[k] = 1 /\ chatCalls[k] = 1

\* An invocation with this context begins.
BeginsInvocation(ctx) ==
    \E m \in Messages \cup Prompts : ChatPrompt(ctx, m) \/ RequestTool(ctx, m)

\* The downstream service answers the call of the suspended handler me.
Answered(me) ==
    \/ \E r \in InitResponses : InitSessionReturns(me, r)
    \/ \E r \in ChatResponses : ChatReturns(me, r)

\* C23: a downstream call that is outstanding blocks nothing.  Whenever the
\* last outcome has been handed on and calls are outstanding, every one of
\* them can be answered whatever becomes of the others, an invocation can
\* begin for every context that can carry one, and the HTTP server can take a
\* POST /messages, a health check and a new streaming connection.
C23_OutstandingCallBlocksNothing ==
    (ev = NoEvent /\ Outstanding >= 1) =>
        /\ \A me \in BagToSet(pending) : ENABLED Answered(me)
        /\ started < MaxInv =>
              \A ctx \in CtxIds :
                  (IF serverMode = "stdio" THEN ctx = UndefinedId
                   ELSE ctx \in SessionIds /\ connState[ctx] # "none")
                      => ENABLED BeginsInvocation(ctx)
        /\ serverMode = "http" =>
              /\ ENABLED Health
              /\ \A q \in QueryIds : ENABLED (\E sdk \in SdkOutcomes : PostMessages(q, sdk))
              /\ (\E s \in SessionIds : connState[s] = "none")
                    => ENABLED (\E s \in SessionIds : SseConnect(s))

\* C23 happens: while the /api/init call of an invocation of the first
\* connection is outstanding, an invocation of the second connection has
\* been through /api/init and /api/chat and has returned.
C23_Witness ==
    /\ variant = "keyed"
    /\ \E me \in BagToSet(pending) : me.pc = "init" /\ me.sessionId = << "sse", 1 >>
    /\ initOks[<< "sse", 1 >>] = 0
    /\ chatCalls[<< "sse", 2 >>] = 1
    /\ ChatAnswer /\ ev.result.outcome = "returned"

\* C24: there is no timeout and no cancellation.  A suspended handler leaves
\* its downstream call only in the step in which that call is answered, and
\* an invocation that issued a call has a result only from such a step; in
\* particular the close of its connection leaves the call outstanding.
C24_NoTimeoutNoCancellation ==
    [][/\ \A me \in BagToSet(pending) :
             CopiesIn(me, pending') < CopiesIn(me, pending) => Answered(me)
       /\ (InitFailure' \/ ChatAnswer') =>
             \E me \in BagToSet(pending) : Answered(me)
       /\ (\E s \in SessionIds : Closes(s)) => pending' = pending]_vars

\* C24 happens: the connection of an invocation was closed while its
\* downstream call is outstanding, and the invocation is still waiting.
C24_Witness ==
    /\ ev = NoEvent
    /\ \E me \in BagToSet(pending) :
          me.sessionId \in SessionIds /\ connState[me.sessionId] = "closed"

\* C25: when every downstream call is answered in the end, every invocation
\* comes to its end: the handlers that are suspended on a downstream call are
\* all resumed and none is left; and the invocations begun so far have issued
\* two downstream calls each at most.
C25_InvocationsTerminate ==
    /\ (Outstanding >= 1) ~> (Outstanding = 0)
    /\ [](Total(initCalls) + Total(chatCalls) <= 2 * started)

\* C25 happens: two invocations have come to their end, the one after an
\* /api/init and an /api/chat call, the other after its /api/init call.
C25_Witness ==
    /\ started = 2 /\ Outstanding = 0
    /\ Total(initCalls) = 2 /\ Total(chatCalls) = 1
    /\ InitFailure

=============================================================================
